---- MODULE Spec2Model ----
(***************************************************************************)
(* LinkSphere backend: the link handlers of routes/links.rs over the link  *)
(* queries of database/queries.rs.                                          *)
(*                                                                          *)
(* Every request runs as its own task.  One action is one await point of   *)
(* a handler (one SQL statement, executed atomically by the store)          *)
(* together with the synchronous code that follows it up to the next await. *)
(* Every statement may fail with a storage fault (sqlx::Error).  The         *)
(* enrichment task spawned by handle_create_link is a process of its own.   *)
(*                                                                          *)
(* Utc::now() is a counter: every reading returns a later instant than the  *)
(* readings before it.  The table assigns ids once each, in order.  The      *)
(* fields at, hit, early, fault and pred of a request and fetch and wrote   *)
(* of a task record what the run did; no action reads them.                  *)
(***************************************************************************)
EXTENDS Integers, Sequences, FiniteSets, TLC

\* ------------------------------------------------------------------ bounds
\* Requests that arrive in a run, and links that are created in it.
MaxReqs == 2
MaxLinks == 2

Reqs == 1..MaxReqs
Ids == 1..MaxLinks

\* AuthUser.id values: the spec's users U and V.
Users == {"U", "V"}

\* CreateLinkRequest bodies: one that passes validate() and validate_url()
\* and one that does not, for POST and for PUT.
BadBody == [url |-> "bad", title |-> "t0", description |-> "d0", valid |-> FALSE]
CreateBodies ==
  { [url |-> "u1", title |-> "t1", description |-> "d1", valid |-> TRUE],
    BadBody }
UpdateBodies ==
  { [url |-> "u2", title |-> "t2", description |-> "d2", valid |-> TRUE],
    BadBody }

NoPayload == [url |-> "", title |-> "", description |-> "", valid |-> FALSE]

\* Option<JsonLinkPreview>: {} is NULL, {u} the preview fetched from url u.
NoPreview == {}
PreviewOf(url) == {url}

VARIABLES
  links,    \* table links: [existing ids -> row]
  nextId,   \* next id the table's default assigns
  clock,    \* Utc::now()
  req,      \* the request tasks
  tasks     \* the enrichment tasks, by link id

vars == <<links, nextId, clock, req, tasks>>

\* ------------------------------------------------------- pure definitions

\* payload.validate() and payload.validate_url()
Validate(payload) == payload.valid

\* link.user_id != user.id, the ownership guard of update and delete
AuthorizeAnyone(requester, owner) == TRUE
Authorize(requester, owner) == requester = owner

\* handle_create_link passes None as the preview of the new row
InitialPreviewEager(url) == PreviewOf(url)
InitialPreview(url) == NoPreview

\* The default of column links.click_count, which the INSERT does not name.
ClickCountDefault == 0

\* INSERT INTO links (url, title, description, user_id, created_at,
\* updated_at, preview) VALUES ($1, $2, $3, $4, $5, $5, $6); click_count
\* takes the column default
InsertRow(id, payload, user, now, preview) ==
  [id |-> id, url |-> payload.url, title |-> payload.title,
   description |-> payload.description, user_id |-> user,
   click_count |-> ClickCountDefault,
   created_at |-> now, updated_at |-> now, preview |-> preview]

\* SET click_count = click_count + 1
IncrementRowSet(row) == [row EXCEPT !.click_count = 1]
IncrementRowTouching(row) ==
  [row EXCEPT !.click_count = @ + 1, !.updated_at = @ + 1]
IncrementRow(row) == [row EXCEPT !.click_count = @ + 1]

\* increment_click_count: UPDATE links SET click_count = click_count + 1
\* WHERE id = $1
IncrementClickCountAll(table, id) ==
  [i \in DOMAIN table |-> IncrementRow(table[i])]
IncrementClickCount(table, id) ==
  [i \in DOMAIN table |-> IF i = id THEN IncrementRow(table[i]) ELSE table[i]]

\* SET url = $2, title = $3, description = $4, updated_at = $5
UpdateRowClearingPreview(row, payload, now) ==
  [row EXCEPT !.url = payload.url, !.title = payload.title,
              !.description = payload.description, !.updated_at = now,
              !.preview = NoPreview]
UpdateRowReowning(row, payload, now) ==
  [row EXCEPT !.url = payload.url, !.title = payload.title,
              !.description = payload.description, !.updated_at = now,
              !.user_id = payload.url]
UpdateRowResettingClicks(row, payload, now) ==
  [row EXCEPT !.url = payload.url, !.title = payload.title,
              !.description = payload.description, !.updated_at = now,
              !.click_count = 0]
UpdateRowDroppingPreview(row, payload, now) ==
  [row EXCEPT !.url = payload.url, !.title = payload.title,
              !.description = payload.description, !.updated_at = now,
              !.preview = {}]
UpdateRow(row, payload, now) ==
  [row EXCEPT !.url = payload.url, !.title = payload.title,
              !.description = payload.description, !.updated_at = now]

\* update_link: UPDATE links SET ... WHERE id = $1
UpdateLinkUpsert(table, id, payload, now) ==
  [i \in DOMAIN table \cup {id} |->
     IF i = id
     THEN [id |-> id, url |-> payload.url, title |-> payload.title,
           description |-> payload.description, user_id |-> "U",
           click_count |-> 0, created_at |-> now, updated_at |-> now,
           preview |-> NoPreview]
     ELSE table[i]]
UpdateLink(table, id, payload, now) ==
  [i \in DOMAIN table |->
     IF i = id THEN UpdateRow(table[i], payload, now) ELSE table[i]]

\* SET preview = $1
AttachRowTouching(row, preview) ==
  [row EXCEPT !.preview = preview, !.updated_at = @ + 1]
AttachRow(row, preview) == [row EXCEPT !.preview = preview]

\* the enrichment task's UPDATE links SET preview = $1 WHERE id = $2
AttachPreviewEverywhere(table, id, preview) ==
  [i \in DOMAIN table |-> AttachRow(table[i], preview)]
AttachPreview(table, id, preview) ==
  [i \in DOMAIN table |->
     IF i = id THEN AttachRow(table[i], preview) ELSE table[i]]

\* let url = payload.url.clone() ... fetch_link_preview(&url): the task
\* fetches the url it was given when it was spawned, not the row's
FetchedUrlStored(captured, table, id) ==
  IF id \in DOMAIN table THEN table[id].url ELSE captured
FetchedUrl(captured, table, id) == captured

\* if let Ok(preview) = fetch_link_preview(&url).await: the task goes on to
\* its UPDATE only with a fetched preview
AfterFetchAlways(ok) == "write"
AfterFetch(ok) == IF ok THEN "write" ELSE "done"

\* match create_link(..).await: Ok(link) goes on to tokio::spawn, Err(e)
\* returns before it
SpawnsTaskAlways(ok) == TRUE
SpawnsTask(ok) == ok

\* tokio::spawn(..) is not awaited: the response is built whatever the
\* task's position
ResponseReadyAfterTask(taskpc) == taskpc = "done"
ResponseReady(taskpc) == TRUE

\* ... WHERE l.id = $1, fetch_optional: {} or {row}
GetLinkById(table, id) == IF id \in DOMAIN table THEN {table[id]} ELSE {}

\* DELETE FROM links WHERE id = $1
DeleteRowKeeping(table, id) == table
DeleteRow(table, id) == [i \in DOMAIN table \ {id} |-> table[i]]

\* queries::delete_link returns Ok(()) without reading the number of rows
\* the DELETE removed
DeleteOutcomeChecked(found) == IF found THEN "Ok" ELSE "NotFound"
DeleteOutcome(found) == "Ok"

\* ORDER BY l.created_at: does row a come before row b
ComesBeforeAsc(a, b) == a.created_at < b.created_at
ComesBefore(a, b) == a.created_at > b.created_at

\* SELECT ... FROM links l ORDER BY l.created_at DESC, fetch_all: the ids of
\* the rows, in the order of the result
RECURSIVE OrderedIds(_, _)
OrderedIds(table, left) ==
  IF left = {} THEN << >>
  ELSE LET first == CHOOSE i \in left :
                      \A j \in left \ {i} : ~ComesBefore(table[j], table[i])
       IN  <<first>> \o OrderedIds(table, left \ {first})

GetAllLinks(table) == OrderedIds(table, DOMAIN table)

\* ----------------------------------------------------------------- state

IdleReq ==
  [kind |-> "none", pc |-> "idle", user |-> "U", id |-> 0,
   payload |-> NoPayload, now |-> 0, rec |-> {}, out |-> "none",
   resp |-> {}, list |-> << >>, fault |-> FALSE, at |-> "none",
   hit |-> FALSE, early |-> FALSE, pred |-> {}]

IdleTask == [pc |-> "none", url |-> "", fetch |-> "none", preview |-> NoPreview,
             wrote |-> FALSE]

\* The service starts on an empty table, or goes on from the moment user U's
\* create request for link 1 has been answered and its enrichment task is
\* still fetching.
FirstBody == [url |-> "u1", title |-> "t1", description |-> "d1", valid |-> TRUE]

Init ==
  /\ req = [r \in Reqs |-> IdleReq]
  /\ clock = 1
  /\ \/ /\ links = << >>
        /\ nextId = 1
        /\ tasks = [i \in Ids |-> IdleTask]
     \/ /\ links = (1 :> InsertRow(1, FirstBody, "U", 0, InitialPreview("u1")))
        /\ nextId = 2
        /\ tasks = [i \in Ids |->
                      IF i = 1
                      THEN [IdleTask EXCEPT !.pc = "fetch", !.url = "u1"]
                      ELSE IdleTask]

\* What the table holds for an id: a row, a row that was deleted, or nothing
\* ever (ids are handed out once, in order).
IdStatus(i) ==
  IF i \in DOMAIN links THEN "live"
  ELSE IF i < nextId THEN "deleted" ELSE "never"

\* A request whose first statement met a storage fault: nothing of the table
\* was seen.
Faulted(kind) == [IdleReq EXCEPT !.kind = kind, !.fault = TRUE]

\* Request slots are taken in order.
CanStart(r) ==
  /\ req[r].pc = "idle"
  /\ IF r = 1 THEN TRUE ELSE req[r - 1].pc # "idle"

\* The response leaves and the handler's locals are dropped.
Finish(r, base, out) ==
  req' = [req EXCEPT ![r] = [base EXCEPT !.pc = "done", !.out = out,
                                         !.now = 0, !.rec = {}]]

\* The links whose create request has been answered: in this run, or before
\* it began.
CreatedAndAnswered ==
  { req[q].id : q \in { x \in Reqs : req[x].kind = "create"
                                      /\ req[x].out = "Created" } }
  \cup { i \in 1..(nextId - 1) :
           \A q \in Reqs : ~(req[q].kind = "create" /\ req[q].id = i) }

\* ------------------------------------------------------ handle_create_link

\* The request arrives; validation; create_link takes now = Utc::now().
CreateStart(r, u, p) ==
  /\ CanStart(r)
  /\ LET base == [IdleReq EXCEPT !.kind = "create", !.user = u, !.payload = p]
     IN  IF ~Validate(p)
         THEN /\ Finish(r, base, "ValidationFailure")
              /\ UNCHANGED <<links, nextId, clock, tasks>>
         ELSE /\ nextId + Cardinality({q \in Reqs : req[q].pc = "insert"})
                   <= MaxLinks
              /\ req' = [req EXCEPT ![r] =
                           [base EXCEPT !.pc = "insert", !.now = clock,
                                        !.pred = CreatedAndAnswered]]
              /\ clock' = clock + 1
              /\ UNCHANGED <<links, nextId, tasks>>

\* The INSERT ... RETURNING statement, then tokio::spawn of the enrichment
\* task and the building of the response from the returned row.
CreateInsert(r, ok) ==
  /\ req[r].pc = "insert"
  /\ IF ok
     THEN LET row == InsertRow(nextId, req[r].payload, req[r].user,
                               req[r].now, InitialPreview(req[r].payload.url))
          IN  /\ links' = (nextId :> row) @@ links
              /\ nextId' = nextId + 1
              /\ tasks' = [tasks EXCEPT ![nextId] =
                             [IdleTask EXCEPT !.pc = "fetch",
                                              !.url = req[r].payload.url]]
              /\ req' = [req EXCEPT ![r].pc = "respond", ![r].id = nextId,
                                    ![r].rec = {row}]
              /\ UNCHANGED clock
     ELSE /\ Finish(r, [req[r] EXCEPT !.fault = TRUE], "ServerError")
          /\ tasks' = IF SpawnsTask(ok)
                      THEN [tasks EXCEPT ![nextId] =
                              [IdleTask EXCEPT !.pc = "fetch",
                                               !.url = req[r].payload.url]]
                      ELSE tasks
          /\ UNCHANGED <<links, nextId, clock>>

\* The 201 response leaves with the record create_link returned.
CreateRespond(r) ==
  /\ req[r].pc = "respond"
  /\ ResponseReady(tasks[req[r].id].pc)
  /\ Finish(r, [req[r] EXCEPT
                   !.resp = req[r].rec,
                   !.early = \E row \in GetLinkById(links, req[r].id) :
                               row.preview # NoPreview],
            "Created")
  /\ UNCHANGED <<links, nextId, clock, tasks>>

\* The spawned task: fetch_link_preview(&url) returns Ok or Err.
TaskFetch(i, ok) ==
  /\ tasks[i].pc = "fetch"
  /\ tasks' = [tasks EXCEPT ![i] =
                 [@ EXCEPT !.pc = AfterFetch(ok),
                           !.fetch = IF ok THEN "ok" ELSE "failed",
                           !.preview = IF AfterFetch(ok) = "write"
                                       THEN PreviewOf(FetchedUrl(tasks[i].url,
                                                                 links, i))
                                       ELSE NoPreview]]
  /\ UNCHANGED <<links, nextId, clock, req>>

\* The spawned task: UPDATE links SET preview = $1 WHERE id = $2, its result
\* dropped.
TaskWrite(i, ok) ==
  /\ tasks[i].pc = "write"
  /\ tasks' = [tasks EXCEPT ![i].pc = "done", ![i].wrote = ok]
  /\ links' = IF ok THEN AttachPreview(links, i, tasks[i].preview) ELSE links
  /\ UNCHANGED <<nextId, clock, req>>

\* ------------------------------------------------------------ track_click

TrackClick(r, i, ok) ==
  /\ CanStart(r)
  /\ LET base == [IdleReq EXCEPT !.kind = "click", !.id = i,
                                 !.at = IdStatus(i)]
     IN  IF ok
         THEN /\ links' = IncrementClickCount(links, i)
              /\ Finish(r, base, "Ok")
         ELSE /\ Finish(r, Faulted(base.kind), "ServerError")
              /\ UNCHANGED links
  /\ UNCHANGED <<nextId, clock, tasks>>

\* ------------------------------------------- get_link_by_id_handler, get_links

GetLink(r, i, ok) ==
  /\ CanStart(r)
  /\ LET base == [IdleReq EXCEPT !.kind = "get", !.id = i,
                                 !.at = IdStatus(i)]
         found == GetLinkById(links, i)
     IN  IF ~ok THEN Finish(r, Faulted(base.kind), "ServerError")
         ELSE IF found = {} THEN Finish(r, base, "NotFound")
         ELSE Finish(r, [base EXCEPT !.resp = found], "Ok")
  /\ UNCHANGED <<links, nextId, clock, tasks>>

GetLinks(r, ok) ==
  /\ CanStart(r)
  /\ LET base == [IdleReq EXCEPT !.kind = "list"]
     IN  IF ok THEN Finish(r, [base EXCEPT !.list = GetAllLinks(links)], "Ok")
         ELSE Finish(r, Faulted(base.kind), "ServerError")
  /\ UNCHANGED <<links, nextId, clock, tasks>>

\* ------------------------------------------------------------ delete_link

\* get_link_by_id and the ownership check.
DeleteRead(r, u, i, ok) ==
  /\ CanStart(r)
  /\ LET base == [IdleReq EXCEPT !.kind = "delete", !.user = u, !.id = i,
                                 !.at = IdStatus(i)]
         found == GetLinkById(links, i)
     IN  IF ~ok THEN Finish(r, Faulted(base.kind), "ServerError")
         ELSE IF found = {} THEN Finish(r, base, "NotFound")
         ELSE IF ~Authorize(u, links[i].user_id)
         THEN Finish(r, base, "Forbidden")
         ELSE req' = [req EXCEPT ![r] =
                        [base EXCEPT !.pc = "delete", !.rec = found]]
  /\ UNCHANGED <<links, nextId, clock, tasks>>

\* database::queries::delete_link
DeleteStmt(r, ok) ==
  /\ req[r].pc = "delete"
  /\ IF ok
     THEN /\ links' = DeleteRow(links, req[r].id)
          /\ Finish(r, [req[r] EXCEPT !.hit = (req[r].id \in DOMAIN links)],
                    DeleteOutcome(req[r].id \in DOMAIN links))
     ELSE /\ Finish(r, [req[r] EXCEPT !.fault = TRUE], "ServerError")
          /\ UNCHANGED links
  /\ UNCHANGED <<nextId, clock, tasks>>

\* ---------------------------------------------------- update_link_handler

\* Validation, get_link_by_id, the ownership check; update_link takes
\* now = Utc::now().
UpdateRead(r, u, i, p, ok) ==
  /\ CanStart(r)
  /\ LET base == [IdleReq EXCEPT !.kind = "update", !.user = u, !.id = i,
                                 !.payload = p, !.at = IdStatus(i)]
         found == GetLinkById(links, i)
     IN  IF ~Validate(p)
         THEN Finish(r, [IdleReq EXCEPT !.kind = "update", !.payload = p],
                     "ValidationFailure")
              /\ UNCHANGED clock
         ELSE IF ~ok
         THEN Finish(r, Faulted(base.kind), "ServerError")
              /\ UNCHANGED clock
         ELSE IF found = {}
         THEN Finish(r, base, "NotFound") /\ UNCHANGED clock
         ELSE IF ~Authorize(u, links[i].user_id)
         THEN Finish(r, base, "Forbidden")
              /\ UNCHANGED clock
         ELSE /\ req' = [req EXCEPT ![r] =
                           [base EXCEPT !.pc = "update", !.rec = found,
                                        !.now = clock]]
              /\ clock' = clock + 1
  /\ UNCHANGED <<links, nextId, tasks>>

\* UPDATE links SET ... WHERE id = $1 RETURNING ...
UpdateStmt(r, ok) ==
  /\ req[r].pc = "update"
  /\ LET i == req[r].id
     IN  IF ~ok
         THEN /\ Finish(r, [req[r] EXCEPT !.fault = TRUE], "ServerError")
              /\ UNCHANGED links
         ELSE LET after == UpdateLink(links, i, req[r].payload, req[r].now)
                  returned == GetLinkById(after, i)
              IN  /\ links' = after
                  /\ IF returned = {}
                     THEN Finish(r, req[r], "NotFound")
                     ELSE req' = [req EXCEPT ![r].pc = "lookup",
                                             ![r].hit = (i \in DOMAIN links),
                                             ![r].resp = returned]
  /\ UNCHANGED <<nextId, clock, tasks>>

\* SELECT username FROM users WHERE id = $1, then the 200 response.
UpdateLookup(r, ok) ==
  /\ req[r].pc = "lookup"
  /\ IF ok THEN Finish(r, req[r], "Ok")
     ELSE Finish(r, [req[r] EXCEPT !.fault = TRUE, !.resp = {}], "ServerError")
  /\ UNCHANGED <<links, nextId, clock, tasks>>

\* ------------------------------------------------------------------ system

Next ==
  \/ \E r \in Reqs, u \in Users, p \in CreateBodies : CreateStart(r, u, p)
  \/ \E r \in Reqs, ok \in BOOLEAN : CreateInsert(r, ok)
  \/ \E r \in Reqs : CreateRespond(r)
  \/ \E i \in Ids, ok \in BOOLEAN : TaskFetch(i, ok)
  \/ \E i \in Ids, ok \in BOOLEAN : TaskWrite(i, ok)
  \/ \E r \in Reqs, i \in Ids, ok \in BOOLEAN : TrackClick(r, i, ok)
  \/ \E r \in Reqs, i \in Ids, ok \in BOOLEAN : GetLink(r, i, ok)
  \/ \E r \in Reqs, ok \in BOOLEAN : GetLinks(r, ok)
  \/ \E r \in Reqs, u \in Users, i \in Ids, ok \in BOOLEAN :
       DeleteRead(r, u, i, ok)
  \/ \E r \in Reqs, ok \in BOOLEAN : DeleteStmt(r, ok)
  \/ \E r \in Reqs, u \in Users, i \in Ids, p \in UpdateBodies,
          ok \in BOOLEAN :
       UpdateRead(r, u, i, p, ok)
  \/ \E r \in Reqs, ok \in BOOLEAN : UpdateStmt(r, ok)
  \/ \E r \in Reqs, ok \in BOOLEAN : UpdateLookup(r, ok)

Spec == Init /\ [][Next]_vars

\* tokio polls every spawned task until it completes: a task that can fetch
\* or write eventually does.
FairSpec ==
  /\ Spec
  /\ \A i \in Ids : WF_vars(\E ok \in BOOLEAN : TaskFetch(i, ok))
  /\ \A i \in Ids : WF_vars(\E ok \in BOOLEAN : TaskWrite(i, ok))

TypeOK ==
  /\ DOMAIN links \subseteq Ids
  /\ nextId \in 1..(MaxLinks + 1)
\* ------------------------------------------------------------------ claims

\* Request r takes a step.
StepOf(r) == req'[r] # req[r]

\* The position of id i in a listing (0 when it is not listed).
PosIn(list, i) ==
  IF \E k \in 1..Len(list) : list[k] = i
  THEN CHOOSE k \in 1..Len(list) : list[k] = i
  ELSE 0

\* C1: every step of an update or delete request whose requester is not the
\* owner of the existing target link leaves the whole table unchanged, and the
\* step that makes the ownership check (no storage fault, valid body) ends
\* the request with Forbidden.
C1_NonOwnerForbidden ==
  [][\A r \in Reqs :
       ( /\ StepOf(r)
         /\ req'[r].kind \in {"update", "delete"}
         /\ req'[r].id \in DOMAIN links
         /\ links[req'[r].id].user_id # req'[r].user )
       => /\ links' = links
          /\ ( /\ req[r].pc = "idle"
               /\ ~req'[r].fault
               /\ (req'[r].kind = "update" => Validate(req'[r].payload)) )
             => (req'[r].pc = "done" /\ req'[r].out = "Forbidden")]_vars

\* A non-owner update on an existing link was answered Forbidden and the link
\* is still stored, without the url of the request.
C1_Witness ==
  \E r \in Reqs :
    /\ req[r].kind = "update"
    /\ req[r].out = "Forbidden"
    /\ req[r].at = "live"
    /\ req[r].id \in DOMAIN links
    /\ links[req[r].id].user_id # req[r].user
    /\ links[req[r].id].url # req[r].payload.url

\* C2: the record a create request answers with has no preview, whatever the
\* enrichment task has done by then.
C2_CreatedWithoutPreview ==
  \A r \in Reqs :
    (req[r].kind = "create" /\ req[r].out = "Created")
    => /\ req[r].resp # {}
       /\ \A row \in req[r].resp : row.preview = NoPreview

\* A create request was answered after its enrichment task had already
\* written the preview.
C2_Witness ==
  \E r \in Reqs :
    /\ req[r].kind = "create"
    /\ req[r].out = "Created"
    /\ req[r].early
    /\ tasks[req[r].id].pc = "done"

\* C3: once the fetch of a link's enrichment task has succeeded, a fetch by id
\* eventually returns the link with the preview present, unless the link is
\* deleted or the task's UPDATE statement hits a storage fault; and the step
\* that attaches the preview leaves updated_at as it was.
C3_PreviewEventuallyPresent ==
  /\ \A i \in Ids :
       (tasks[i].fetch = "ok")
       ~> ( \/ GetLinkById(links, i) = {}
            \/ (tasks[i].pc = "done" /\ ~tasks[i].wrote)
            \/ \E row \in GetLinkById(links, i) : row.preview # NoPreview )
  /\ [][\A i \in Ids :
          (tasks[i].pc = "write" /\ tasks'[i].pc = "done" /\ i \in DOMAIN links)
          => /\ i \in DOMAIN links'
             /\ links'[i].updated_at = links[i].updated_at]_vars

\* The preview of a link was attached by its task and the link still has the
\* updated_at it was created with.
C3_Witness ==
  \E i \in DOMAIN links :
    /\ tasks[i].pc = "done"
    /\ tasks[i].wrote
    /\ links[i].preview = PreviewOf(tasks[i].url)
    /\ links[i].updated_at = links[i].created_at

\* C4: a link whose fetch failed has no preview in any later state, and only a
\* storage fault of a request's own statement gives a request a server error.
C4_FailedFetchLeavesAbsent ==
  /\ \A i \in DOMAIN links :
       tasks[i].fetch = "failed" => links[i].preview = NoPreview
  /\ \A r \in Reqs : req[r].out = "ServerError" => req[r].fault

\* The fetch of a link failed, its create request was answered Created and a
\* later fetch by id returned the link without a preview.
C4_Witness ==
  \E i \in DOMAIN links, r \in Reqs, g \in Reqs :
    /\ tasks[i].fetch = "failed"
    /\ tasks[i].pc = "done"
    /\ req[r].kind = "create" /\ req[r].id = i /\ req[r].out = "Created"
    /\ req[g].kind = "get" /\ req[g].id = i /\ req[g].out = "Ok"
    /\ \A row \in req[g].resp : row.preview = NoPreview

\* The click-tracking calls whose UPDATE statement found the row of link i.
AppliedClicks(i) ==
  { r \in Reqs : /\ req[r].kind = "click" /\ req[r].id = i
                 /\ req[r].out = "Ok" /\ req[r].at = "live" }

\* C5: the click_count of a stored link is the number of click-tracking calls
\* that were applied to it, whatever updates and preview writes ran between.
C5_NoLostClick ==
  \A i \in DOMAIN links : links[i].click_count = Cardinality(AppliedClicks(i))

\* Two clicks were applied to a link whose preview was attached meanwhile.
C5_Witness ==
  \E i \in DOMAIN links :
    /\ Cardinality(AppliedClicks(i)) = 2
    /\ links[i].preview # NoPreview

\* C6 as stated: every delete request that meets no storage fault and no
\* ownership refusal reports success, whether or not the id exists, and a
\* fetch of a deleted id reports NotFound.
C6_Original ==
  /\ \A r \in Reqs :
       ( /\ req[r].kind = "delete" /\ req[r].pc = "done"
         /\ ~req[r].fault /\ req[r].out # "Forbidden" )
       => req[r].out = "Ok"
  /\ \A r \in Reqs :
       (req[r].kind = "get" /\ req[r].at = "deleted" /\ ~req[r].fault)
       => req[r].out = "NotFound"

\* C6, amended: a delete request by the owner that found the link at the
\* ownership read reports success, also when the row is gone by the time of
\* the DELETE statement; a delete request for an id without a row reports
\* NotFound; a fetch of a deleted id reports NotFound.
C6_DeleteOutcomes ==
  /\ \A r \in Reqs :
       (req[r].kind = "delete" /\ req[r].pc = "done" /\ ~req[r].fault)
       => /\ req[r].at # "live" => req[r].out = "NotFound"
          /\ (req[r].at = "live" /\ req[r].out # "Forbidden")
             => (req[r].out = "Ok" /\ req[r].id \notin DOMAIN links)
  /\ \A r \in Reqs :
       (req[r].kind = "get" /\ req[r].at = "deleted" /\ ~req[r].fault)
       => req[r].out = "NotFound"

\* The owner's delete of a stored link was answered Ok and a second delete
\* of the same id was answered NotFound.
C6_Witness ==
  \E d \in Reqs, n \in Reqs :
    /\ req[d].kind = "delete" /\ req[d].out = "Ok" /\ req[d].hit
    /\ req[n].kind = "delete" /\ req[n].id = req[d].id
    /\ req[n].at = "deleted" /\ req[n].out = "NotFound"

\* C7: the step of an update request that looks for a row that is not there,
\* at the ownership read or at the UPDATE statement after a passed check,
\* ends the request with NotFound (valid body, no storage fault) and leaves
\* the table unchanged; an update is answered Ok only when its UPDATE
\* statement found the row.
C7_UpdateNotFound ==
  /\ [][\A r \in Reqs :
          ( /\ StepOf(r) /\ req'[r].kind = "update" /\ ~req'[r].fault
            /\ req[r].pc \in {"idle", "update"}
            /\ req'[r].id \notin DOMAIN links )
          => /\ links' = links
             /\ Validate(req'[r].payload)
                => (req'[r].pc = "done" /\ req'[r].out = "NotFound")]_vars
  /\ [](\A r \in Reqs :
          (req[r].kind = "update" /\ req[r].pc \in {"lookup", "done"}
           /\ req[r].out \in {"none", "Ok"})
          => req[r].hit)

\* The owner's update passed the ownership check, the link was deleted, and
\* the update was answered NotFound.
C7_Witness ==
  \E r \in Reqs :
    /\ req[r].kind = "update"
    /\ req[r].at = "live"
    /\ req[r].out = "NotFound"
    /\ req[r].id \notin DOMAIN links

\* C8: the UPDATE statement of an owner's update that matches the row sets
\* url, title and description to the requested values, changes updated_at and
\* leaves id, user_id, click_count, created_at and preview as they were; the
\* other rows stay.
C8_UpdateFrame ==
  [][\A r \in Reqs :
       (req[r].pc = "update" /\ req'[r].pc = "lookup")
       => LET i == req[r].id
          IN  /\ i \in DOMAIN links /\ DOMAIN links' = DOMAIN links
              /\ links'[i].url = req[r].payload.url
              /\ links'[i].title = req[r].payload.title
              /\ links'[i].description = req[r].payload.description
              /\ links'[i].updated_at # links[i].updated_at
              /\ links'[i].id = links[i].id
              /\ links'[i].user_id = links[i].user_id
              /\ links'[i].click_count = links[i].click_count
              /\ links'[i].created_at = links[i].created_at
              /\ links'[i].preview = links[i].preview
              /\ \A j \in DOMAIN links \ {i} : links'[j] = links[j]]_vars

\* An owner's update was answered Ok with a record that shows the new url and
\* the preview that was attached before.
C8_Witness ==
  \E r \in Reqs :
    /\ req[r].kind = "update"
    /\ req[r].out = "Ok"
    /\ \E row \in req[r].resp :
         /\ row.preview # NoPreview
         /\ row.url = req[r].payload.url
         /\ row.updated_at # row.created_at

\* C9: a listing that holds links A and B, where the create request of A was
\* answered before the create request of B arrived, shows B before A.
C9_NewestFirst ==
  \A l \in Reqs, b \in Reqs :
    (req[l].kind = "list" /\ req[l].out = "Ok"
     /\ req[b].kind = "create" /\ req[b].pc \in {"respond", "done"})
    => \A a \in req[b].pred :
         (PosIn(req[l].list, a) > 0 /\ PosIn(req[l].list, req[b].id) > 0)
         => PosIn(req[l].list, req[b].id) < PosIn(req[l].list, a)

\* A listing returned two links, one created after the other's create request
\* had been answered.
C9_Witness ==
  \E l \in Reqs, b \in Reqs :
    /\ req[l].kind = "list" /\ req[l].out = "Ok"
    /\ req[b].kind = "create" /\ req[b].out = "Created"
    /\ \E a \in req[b].pred : req[l].list = <<req[b].id, a>>

\* C10: a click-tracking call on an id without a row is answered Ok (storage
\* faults aside) and leaves the table unchanged.
C10_ClickOnMissing ==
  [][\A r \in Reqs :
       ( /\ StepOf(r) /\ req'[r].kind = "click"
         /\ req'[r].id \notin DOMAIN links )
       => /\ links' = links
          /\ ~req'[r].fault => req'[r].out = "Ok"]_vars

\* A click on a deleted link was answered Ok while another link is stored.
C10_Witness ==
  \E r \in Reqs :
    /\ req[r].kind = "click"
    /\ req[r].at = "deleted"
    /\ req[r].out = "Ok"
\* C11: the step in which the INSERT of a create request meets a storage
\* fault stores no link, starts no enrichment task and ends the request with
\* the server error; a task exists only for an id the table has handed out.
C11_FailedCreateStartsNothing ==
  /\ [][\A r \in Reqs :
          (req[r].pc = "insert" /\ req'[r].fault)
          => /\ links' = links
             /\ nextId' = nextId
             /\ tasks' = tasks
             /\ req'[r].pc = "done"
             /\ req'[r].out = "ServerError"]_vars
  /\ [](\A i \in Ids : tasks[i].pc # "none" => i < nextId)

\* A create request ended with the server error of its INSERT, and no link
\* and no task came of it.
C11_Witness ==
  \E r \in Reqs :
    /\ req[r].kind = "create"
    /\ req[r].fault
    /\ req[r].out = "ServerError"
    /\ \A i \in Ids : i >= nextId => (tasks[i].pc = "none" /\ i \notin DOMAIN links)
\* The step is the UPDATE statement of an update request that finds the row
\* of link i.
UpdateApplied(i) ==
  \E r \in Reqs :
    req[r].pc = "update" /\ req'[r].pc = "lookup" /\ req[r].id = i

\* C12: a step that changes the updated_at, url, title or description of a
\* stored link is the UPDATE statement of an update request on that link; the
\* preview write and the click increment leave the four fields as they were.
C12_OnlyUpdateTouchesUpdatedAt ==
  [][\A i \in DOMAIN links \cap DOMAIN links' :
       ( \/ links'[i].updated_at # links[i].updated_at
         \/ links'[i].url # links[i].url
         \/ links'[i].title # links[i].title
         \/ links'[i].description # links[i].description )
       => UpdateApplied(i)]_vars

\* A link was clicked and got its preview, and still has the updated_at and
\* the url it was created with.
C12_Witness ==
  \E i \in DOMAIN links :
    /\ links[i].click_count >= 1
    /\ links[i].preview # NoPreview
    /\ links[i].updated_at = links[i].created_at
    /\ links[i].url = tasks[i].url
\* C13: a stored link whose preview is present has a preview after every
\* step that keeps the link.
C13_PreviewStaysPresent ==
  [][\A i \in DOMAIN links \cap DOMAIN links' :
       links[i].preview # NoPreview => links'[i].preview # NoPreview]_vars

\* A link got its preview, was then updated by its owner and clicked, and
\* still has the preview.
C13_Witness ==
  \E i \in DOMAIN links, r \in Reqs :
    /\ links[i].preview # NoPreview
    /\ links[i].click_count >= 1
    /\ req[r].kind = "update" /\ req[r].id = i /\ req[r].out = "Ok"
    /\ \A row \in req[r].resp : row.preview # NoPreview

\* C14: the row stored under an id carries that id, and every step that
\* keeps a link keeps its id and its user_id.
C14_IdAndOwnerFixed ==
  /\ [](\A i \in DOMAIN links : links[i].id = i)
  /\ [][\A i \in DOMAIN links \cap DOMAIN links' :
          /\ links'[i].id = links[i].id
          /\ links'[i].user_id = links[i].user_id]_vars

\* The owner updated a link and another user's delete of it was refused; the
\* link is stored with its owner.
C14_Witness ==
  \E u \in Reqs, d \in Reqs :
    /\ req[u].kind = "update" /\ req[u].out = "Ok"
    /\ req[d].kind = "delete" /\ req[d].out = "Forbidden"
    /\ req[d].id = req[u].id
    /\ req[u].id \in DOMAIN links
    /\ links[req[u].id].user_id = req[u].user
    /\ links[req[u].id].user_id # req[d].user

\* C15: a link enters the table with click_count 0, and no step that keeps
\* a link lowers its click_count.
C15_ClickCountMonotonic ==
  [][/\ \A i \in DOMAIN links' \ DOMAIN links : links'[i].click_count = 0
     /\ \A i \in DOMAIN links \cap DOMAIN links' :
          links'[i].click_count >= links[i].click_count]_vars

\* A link was clicked and updated by its owner, and the click is counted.
C15_Witness ==
  \E c \in Reqs, i \in DOMAIN links :
    /\ req[c].kind = "click" /\ req[c].id = i /\ req[c].at = "live"
    /\ links[i].click_count = 1
    /\ links[i].updated_at # links[i].created_at
\* C16: the preview write of a task whose link has no row leaves the whole
\* table as it was (no row is made, no other link's preview changes), and no
\* request gets a server error except from a storage fault of its own.
C16_WriteAfterDeleteIsNoOp ==
  /\ [][\A i \in Ids :
          (tasks[i].pc = "write" /\ tasks'[i].pc = "done"
           /\ i \notin DOMAIN links)
          => links' = links]_vars
  /\ [](\A r \in Reqs : req[r].out = "ServerError" => req[r].fault)

\* The owner deleted link 1, the task of link 1 then ran its preview write
\* while another link was stored, and that link has no preview.
C16_Witness ==
  \E i \in Ids, d \in Reqs, j \in DOMAIN links :
    /\ req[d].kind = "delete" /\ req[d].id = i /\ req[d].out = "Ok"
    /\ req[d].hit
    /\ tasks[i].pc = "done" /\ tasks[i].wrote
    /\ i \notin DOMAIN links
    /\ links[j].preview = NoPreview
    /\ tasks[j].pc = "fetch"

\* C17: a stored link whose task has written the fetched preview has that
\* preview, and a stored link on which an update's UPDATE statement ran has
\* the url, title and description of that update, whichever came first.
C17_NeitherEffectLost ==
  \A i \in DOMAIN links :
    /\ (tasks[i].pc = "done" /\ tasks[i].wrote)
       => links[i].preview = tasks[i].preview /\ links[i].preview # NoPreview
    /\ \A r \in Reqs :
         (req[r].kind = "update" /\ req[r].id = i /\ req[r].hit)
         => /\ links[i].url = req[r].payload.url
            /\ links[i].title = req[r].payload.title
            /\ links[i].description = req[r].payload.description

\* The owner's update ran its UPDATE statement between the fetch and the
\* preview write of the task: the update's response shows no preview, and the
\* link has the new url and the preview.
C17_Witness ==
  \E r \in Reqs, i \in DOMAIN links :
    /\ req[r].kind = "update" /\ req[r].id = i /\ req[r].out = "Ok"
    /\ \A row \in req[r].resp : row.preview = NoPreview
    /\ tasks[i].pc = "done" /\ tasks[i].wrote
    /\ links[i].url = req[r].payload.url
    /\ links[i].preview = PreviewOf(tasks[i].url)
\* C18: a create request whose INSERT succeeded can send its 201 response in
\* every state, wherever its enrichment task stands, and a task that has not
\* finished can still take its step after the response has left.
C18_ResponseDoesNotWait ==
  /\ \A r \in Reqs :
       (req[r].kind = "create" /\ req[r].pc = "respond")
       => ENABLED CreateRespond(r)
  /\ \A r \in Reqs :
       (req[r].kind = "create" /\ req[r].out = "Created")
       => /\ tasks[req[r].id].pc = "fetch"
             => ENABLED TaskFetch(req[r].id, TRUE)
          /\ tasks[req[r].id].pc = "write"
             => ENABLED TaskWrite(req[r].id, TRUE)

\* A create request was answered while its task was still fetching, and the
\* task attached the preview afterwards.
C18_Witness ==
  \E r \in Reqs :
    /\ req[r].kind = "create" /\ req[r].out = "Created"
    /\ ~req[r].early
    /\ tasks[req[r].id].pc = "done" /\ tasks[req[r].id].wrote
    /\ req[r].id \in DOMAIN links
    /\ links[req[r].id].preview # NoPreview
\* C19: the DELETE statement of a delete request that passed the ownership
\* check, when it meets no storage fault, ends the request with success
\* whether or not the row is still there, leaves the id without a row and the
\* other rows as they were; a delete request without a storage fault ends
\* with success, NotFound or Forbidden.
C19_DeleteUnconditional ==
  /\ [][\A r \in Reqs :
          (req[r].pc = "delete" /\ StepOf(r) /\ ~req'[r].fault)
          => /\ req'[r].pc = "done" /\ req'[r].out = "Ok"
             /\ req[r].id \notin DOMAIN links'
             /\ \A j \in DOMAIN links \ {req[r].id} :
                  j \in DOMAIN links' /\ links'[j] = links[j]]_vars
  /\ [](\A r \in Reqs :
          (req[r].kind = "delete" /\ req[r].pc = "done" /\ ~req[r].fault)
          => req[r].out \in {"Ok", "NotFound", "Forbidden"})

\* Two delete requests of the owner both passed the ownership check on the
\* same link; both were answered with success, and one of them found the row
\* already gone.
C19_Witness ==
  \E a \in Reqs, b \in Reqs :
    /\ a # b
    /\ req[a].kind = "delete" /\ req[b].kind = "delete"
    /\ req[a].id = req[b].id
    /\ req[a].at = "live" /\ req[b].at = "live"
    /\ req[a].out = "Ok" /\ req[b].out = "Ok"
    /\ req[a].hit /\ ~req[b].hit
    /\ req[a].id \notin DOMAIN links
\* C20: no step lowers the updated_at of a link, and the updated_at of a link
\* is never earlier than its created_at.
C20_UpdatedAtNeverDecreases ==
  /\ [][\A i \in DOMAIN links \cap DOMAIN links' :
          links'[i].updated_at >= links[i].updated_at]_vars
  /\ [](\A i \in DOMAIN links : links[i].updated_at >= links[i].created_at)

\* Two update requests on the same link have both run their UPDATE statement;
\* the row carries the timestamp of the one that read the clock first, which
\* is earlier than the timestamp the other one had already written.
C20_Witness ==
  \E a \in Reqs, b \in Reqs :
    /\ a # b
    /\ req[a].kind = "update" /\ req[b].kind = "update"
    /\ req[a].pc = "lookup" /\ req[b].pc = "lookup"
    /\ req[a].id = req[b].id
    /\ req[a].hit /\ req[b].hit
    /\ req[a].id \in DOMAIN links
    /\ links[req[a].id].updated_at = req[b].now
    /\ req[b].now < req[a].now
\* C21: an update request that ended with a server error has changed no row:
\* its UPDATE statement, if it ran, found no row to write.
C21_FaultedUpdateChangesNothing ==
  \A r \in Reqs :
    (req[r].kind = "update" /\ req[r].pc = "done"
     /\ req[r].out = "ServerError")
    => ~req[r].hit

\* An update request was answered with a server error because the lookup of
\* the owner's name failed, and the row carries the url, title and
\* description of its body and a later updated_at.
C21_Witness ==
  \E r \in Reqs :
    /\ req[r].kind = "update" /\ req[r].out = "ServerError"
    /\ req[r].fault /\ req[r].hit
    /\ req[r].id \in DOMAIN links
    /\ links[req[r].id].url = req[r].payload.url
    /\ links[req[r].id].title = req[r].payload.title
    /\ links[req[r].id].description = req[r].payload.description
    /\ links[req[r].id].updated_at > links[req[r].id].created_at
\* The url of the body link i was created with.
CreationUrl(i) ==
  IF \E q \in Reqs : req[q].kind = "create" /\ req[q].id = i
  THEN req[CHOOSE q \in Reqs :
             req[q].kind = "create" /\ req[q].id = i].payload.url
  ELSE FirstBody.url

\* How far an enrichment task has come.
TaskRank(pc) ==
  CASE pc = "none" -> 0 [] pc = "fetch" -> 1 [] pc = "write" -> 2
    [] pc = "done" -> 3

\* C22: every stored link has one enrichment task, which holds the url of the
\* create request's body; the preview of a link is absent or the preview of
\* that url, whatever url the row has now; a task only moves forward (spawned,
\* fetch, write, done), so it fetches once and writes once; and the preview
\* of a link changes only in the write step of its task.
C22_PreviewOfCreationUrl ==
  /\ [](\A i \in DOMAIN links :
          /\ tasks[i].pc # "none"
          /\ tasks[i].url = CreationUrl(i)
          /\ links[i].preview \in {NoPreview, PreviewOf(CreationUrl(i))})
  /\ [][\A i \in Ids :
          tasks'[i] # tasks[i]
          => /\ TaskRank(tasks'[i].pc) > TaskRank(tasks[i].pc)
             /\ tasks[i].pc # "none" => tasks'[i].url = tasks[i].url]_vars
  /\ [][\A i \in DOMAIN links \cap DOMAIN links' :
          links'[i].preview # links[i].preview
          => tasks[i].pc = "write" /\ tasks'[i].pc = "done"]_vars

\* The owner's update changed the url of a link before its task had written
\* (the response of the update shows the new url and no preview); the task
\* has since written, and the row has the new url with the preview of the
\* url it was created with.
C22_Witness ==
  \E r \in Reqs, i \in DOMAIN links :
    /\ req[r].kind = "update" /\ req[r].id = i /\ req[r].hit
    /\ \E row \in req[r].resp :
         row.preview = NoPreview /\ row.url # CreationUrl(i)
    /\ tasks[i].fetch = "ok" /\ tasks[i].wrote
    /\ links[i].url # CreationUrl(i)
    /\ links[i].preview = PreviewOf(CreationUrl(i))
    /\ links[i].preview # PreviewOf(links[i].url)
====
